---- MODULE Spec2Model ----
(***************************************************************************)
(* Terrain aspect (xrspatial/aspect.py): the per-cell Horn kernel, the     *)
(* sequential evaluator _cpu, the device evaluator _gpu/_run_gpu with its  *)
(* adapter _run_cupy, the tiled evaluator _run_dask_numpy and the          *)
(* dispatch in aspect().                                                   *)
(*                                                                         *)
(* Numbers.  Elevations are integers.  A bearing is a binary floating-     *)
(* point number of MantBits significant bits, held as an integer count of  *)
(* 1/Unit degree, where 1/Unit is the spacing of that format in [64, 128); *)
(* the spacing doubles in [128, 256) and again in [256, 512), as it does   *)
(* in float32 and float64.  Every arithmetic result is rounded to the      *)
(* nearest representable value, ties to even (Fl).  The two evaluators     *)
(* are modelled at the same width: the differences between them that the   *)
(* model keeps are the ones written in the code.                           *)
(*                                                                         *)
(* Names.  _run_gpu calls the device function as _gpu_aspect and _run_cupy *)
(* passes two cell-size arrays that _run_gpu does not take; aspect() uses  *)
(* is_cupy_backed without importing it.  The model binds them as the file  *)
(* evidently means: the device function is _gpu, the launch is             *)
(* _run_gpu(_data, agg), and is_cupy_backed tells a dask array over cupy.  *)
(***************************************************************************)
EXTENDS Integers, Sequences, FiniteSets, TLC

\* ------------------------------------------------------------------ bounds
MantBits == 21
MaxElev == 1
Steep == 1600000
MaxRows == 3
MaxCols == 4
MaxSlope == 1
MaxTiles == 2

\* ------------------------------------------------------------ float format
Unit == 2^(MantBits - 7)

NaN == -(2^30)

Abs(v) == IF v < 0 THEN -v ELSE v

\* spacing of representable values around v, in 1/Unit degree
Spacing(v) ==
  IF Abs(v) < 128 * Unit THEN 1
  ELSE IF Abs(v) < 256 * Unit THEN 2
  ELSE 4

\* nearest multiple of s to the natural number v, ties to the even multiple
RoundTo(v, s) ==
  LET q == v \div s
      r == v % s
  IN  IF 2 * r < s THEN q * s
      ELSE IF 2 * r > s THEN (q + 1) * s
      ELSE IF q % 2 = 0 THEN q * s ELSE (q + 1) * s

\* rounding of an exact result to the format
Fl(v) ==
  IF v = NaN THEN NaN
  ELSE IF v < 0 THEN -RoundTo(-v, Spacing(v))
  ELSE RoundTo(v, Spacing(v))

\* floating-point subtraction and addition; NaN propagates
FSub(u, v) == IF u = NaN \/ v = NaN THEN NaN ELSE Fl(u - v)

FAdd(u, v) == IF u = NaN \/ v = NaN THEN NaN ELSE Fl(u + v)

\* comparisons; every comparison with NaN is false
FLt(u, v) == u # NaN /\ v # NaN /\ u < v

FGt(u, v) == u # NaN /\ v # NaN /\ u > v

Deg(n) == Fl(n * Unit)

\* the literal 359.999
NearFullCircle == Fl(360 * Unit - Unit \div 1000)

\* ------------------------------------------------------------------ atan2
\* atan(2^-i) in degrees, i = 0..27, in units of 2^-22 degree
AtanTable ==
  << 188743680, 111421900, 58872272, 29884485, 15000234, 7507429, 3754631,
     1877430, 938729, 469366, 234683, 117342, 58671, 29335, 14668, 7334,
     3667, 1833, 917, 458, 229, 115, 57, 29, 14, 7, 4, 2 >>

SubPerUnit == 2^22 \div Unit

CordicScale == 2^28

\* rotate (x, y), x > 0, onto the x axis by the angles of AtanTable and
\* accumulate the angle turned through
RECURSIVE Cordic(_, _, _, _)
Cordic(x, y, z, i) ==
  IF y = 0 \/ i = Len(AtanTable) THEN z
  ELSE IF y > 0
       THEN Cordic(x + y \div 2^i, y - x \div 2^i, z + AtanTable[i + 1], i + 1)
       ELSE Cordic(x + (-y) \div 2^i, y + x \div 2^i, z - AtanTable[i + 1], i + 1)

\* atan(n / d) in 1/Unit degree for 0 <= n <= d, d > 0
AtanUnits(n, d) ==
  LET s == CordicScale \div d
      z == Cordic(d * s, n * s, 0, 0)
  IN  IF z < 0 THEN 0 ELSE RoundTo(z, SubPerUnit) \div SubPerUnit

\* atan2(y, x) * RADIAN: the angle of (x, y) in degrees, in (-180, 180],
\* for (y, x) # (0, 0); NaN if an argument is NaN
ArcTan2Deg(y, x) ==
  IF y = NaN \/ x = NaN THEN NaN
  ELSE LET ax == Abs(x)
           ay == Abs(y)
           phi == IF ay <= ax THEN AtanUnits(ay, ax)
                  ELSE 90 * Unit - AtanUnits(ax, ay)
           theta == IF x >= 0 THEN phi ELSE 180 * Unit - phi
       IN  Fl(IF y < 0 THEN -theta ELSE theta)

\* ----------------------------------------------------------------- kernel
\* the flat sentinel -1.0
Flat == -Unit

\* a 3x3 neighbourhood: rows 0..2 (north to south), columns 0..2 (west to east)
Pos3 == (0..2) \X (0..2)

\* sum and difference of elevations; NaN propagates
ESum(u, v, w) == IF u = NaN \/ v = NaN \/ w = NaN THEN NaN ELSE u + 2 * v + w

EDiff(u, v) == IF u = NaN \/ v = NaN THEN NaN ELSE u - v

Neg(v) == IF v = NaN THEN NaN ELSE -v

\* the gradients of Horn's method.  They are held in eighths of an elevation
\* unit: the division by 8 is exact in binary floating point and changes
\* neither the test against zero nor the angle of (dz_dx, dz_dy).
DzDx(w) ==
  EDiff(ESum(w[<<0, 2>>], w[<<1, 2>>], w[<<2, 2>>]),
        ESum(w[<<0, 0>>], w[<<1, 0>>], w[<<2, 0>>]))

DzDy(w) ==
  EDiff(ESum(w[<<2, 0>>], w[<<2, 1>>], w[<<2, 2>>]),
        ESum(w[<<0, 0>>], w[<<0, 1>>], w[<<0, 2>>]))

\* a slip of the flat test: "or" for "and"
IsFlatEither(dz_dx, dz_dy) == dz_dx = 0 \/ dz_dy = 0

\* the flat test of both evaluators
IsFlat(dz_dx, dz_dy) == dz_dx = 0 /\ dz_dy = 0

\* a slip of the conversion: the quarter turn of the second branch left out
CompassNoQuarter(aspect) ==
  IF FLt(aspect, 0) THEN FSub(Deg(90), aspect)
  ELSE IF FGt(aspect, Deg(90)) THEN FSub(Deg(360), aspect)
  ELSE FSub(Deg(90), aspect)

\* conversion of the angle to a compass bearing
Compass(aspect) ==
  IF FLt(aspect, 0) THEN FSub(Deg(90), aspect)
  ELSE IF FGt(aspect, Deg(90)) THEN FAdd(FSub(Deg(360), aspect), Deg(90))
  ELSE FSub(Deg(90), aspect)

\* the body of the loop of _cpu for one cell
CpuCell(w) ==
  LET dz_dx == DzDx(w)
      dz_dy == DzDy(w)
  IN  IF IsFlat(dz_dx, dz_dy) THEN Flat
      ELSE Compass(ArcTan2Deg(dz_dy, Neg(dz_dx)))

\* the last statement of _gpu
Snap(aspect) == IF FGt(aspect, NearFullCircle) THEN 0 ELSE aspect

\* _gpu
GpuCell(w) ==
  LET dz_dx == DzDx(w)
      dz_dy == DzDy(w)
  IN  Snap(IF IsFlat(dz_dx, dz_dy) THEN Flat
           ELSE Compass(ArcTan2Deg(dz_dy, Neg(dz_dx))))

\* ------------------------------------------------------------------ grids
\* a grid is [rows, cols, cell], cell indexed by <<row, column>> from 0
Cells(rows, cols) == (0..(rows - 1)) \X (0..(cols - 1))

\* a slip of the fill: the flat sentinel for the missing one
FlatGrid(rows, cols) ==
  [rows |-> rows, cols |-> cols, cell |-> [p \in Cells(rows, cols) |-> Flat]]

\* out = np.zeros_like(data); out[:] = np.nan   (agg = cupy.empty; agg[:] = nan)
NanGrid(rows, cols) ==
  [rows |-> rows, cols |-> cols, cell |-> [p \in Cells(rows, cols) |-> NaN]]

\* data[y-1 .. y+1, x-1 .. x+1]
Window(g, y, x) == [p \in Pos3 |-> g.cell[<<y - 1 + p[1], x - 1 + p[2]>>]]

\* the loop bounds of _cpu: range(1, rows-1) and range(1, cols-1)
CpuLoop(rows, cols, y, x) == y \in 1..(rows - 2) /\ x \in 1..(cols - 2)

\* _cpu
Cpu(data) ==
  LET filled == NanGrid(data.rows, data.cols)
  IN  [filled EXCEPT !.cell =
         [p \in DOMAIN filled.cell |->
            IF CpuLoop(data.rows, data.cols, p[1], p[2])
            THEN CpuCell(Window(data, p[1], p[2]))
            ELSE filled.cell[p]]]

\* the bounds check of _run_gpu for the thread of cell (i, j), di = dj = 1
GpuGuard(i, j, rows, cols) ==
  /\ i - 1 >= 1
  /\ i + 1 < rows - 1
  /\ j - 1 >= 1
  /\ j + 1 < cols - 1

\* a slip of the store: the thread also stores to its eastern neighbour
UnitWritesSpill(i, j, rows, cols) ==
  IF GpuGuard(i, j, rows, cols) THEN {<<i, j>>, <<i, j + 1>>} ELSE {}

\* the cells of out the thread of cell (i, j) stores to
UnitWrites(i, j, rows, cols) ==
  IF GpuGuard(i, j, rows, cols) THEN {<<i, j>>} ELSE {}

\* one execution unit per cell of the padded tile (cuda_args(_data.shape))
Threads(g) == Cells(g.rows, g.cols)

\* index reflected into 0..n-1 by np.pad(mode="reflect") with pad width 1;
\* an axis of length 1 is extended by its edge value
Reflect(k, n) ==
  IF n = 1 THEN 0
  ELSE IF k < 0 THEN -k
  ELSE IF k > n - 1 THEN 2 * (n - 1) - k
  ELSE k

\* _data = np.pad(data, ((1, 1), (1, 1)), mode="reflect")
PadReflect(data) ==
  [rows |-> data.rows + 2, cols |-> data.cols + 2,
   cell |-> [p \in Cells(data.rows + 2, data.cols + 2) |->
              data.cell[<<Reflect(p[1] - 1, data.rows),
                          Reflect(p[2] - 1, data.cols)>>]]]

\* agg[1:-1, 1:-1]
Trim(g) ==
  [rows |-> g.rows - 2, cols |-> g.cols - 2,
   cell |-> [p \in Cells(g.rows - 2, g.cols - 2) |->
              g.cell[<<p[1] + 1, p[2] + 1>>]]]

\* ------------------------------------------------------------ map_overlap
\* chunk boundaries along an axis of length n cut at the positions of cuts
Intervals(cuts, n) ==
  LET B == {0, n} \cup cuts
  IN  {iv \in B \X B :
         /\ iv[1] < iv[2]
         /\ \A m \in B : ~(iv[1] < m /\ m < iv[2])}

\* the tiles of a chunking [rcuts, ccuts] of a grid
Tiles(ch, rows, cols) == Intervals(ch.rcuts, rows) \X Intervals(ch.ccuts, cols)

\* the chunkings of a rows x cols array into at most MaxTiles chunks
Chunkings(rows, cols) ==
  {ch \in [rcuts : SUBSET (1..(rows - 1)), ccuts : SUBSET (1..(cols - 1))] :
     (Cardinality(ch.rcuts) + 1) * (Cardinality(ch.ccuts) + 1) <= MaxTiles}

\* a slip of the overlap: depth 0, the tile alone inside a missing ring
OverlapBlockNoHalo(data, t) ==
  LET r0 == t[1][1]
      r1 == t[1][2]
      c0 == t[2][1]
      c1 == t[2][2]
  IN  [rows |-> r1 - r0 + 2, cols |-> c1 - c0 + 2,
       cell |-> [p \in Cells(r1 - r0 + 2, c1 - c0 + 2) |->
                  LET y == r0 - 1 + p[1]
                      x == c0 - 1 + p[2]
                  IN  IF y \in r0..(r1 - 1) /\ x \in c0..(c1 - 1)
                      THEN data.cell[<<y, x>>]
                      ELSE NaN]]

\* the window map_overlap hands to the function for tile t: the tile and
\* depth 1 of its neighbours, boundary=np.nan outside the array
OverlapBlock(data, t) ==
  LET r0 == t[1][1]
      r1 == t[1][2]
      c0 == t[2][1]
      c1 == t[2][2]
  IN  [rows |-> r1 - r0 + 2, cols |-> c1 - c0 + 2,
       cell |-> [p \in Cells(r1 - r0 + 2, c1 - c0 + 2) |->
                  LET y == r0 - 1 + p[1]
                      x == c0 - 1 + p[2]
                  IN  IF y \in 0..(data.rows - 1) /\ x \in 0..(data.cols - 1)
                      THEN data.cell[<<y, x>>]
                      ELSE NaN]]

\* _func on the window of tile t, its overlap trimmed off again
TileResult(data, t) == Trim(Cpu(OverlapBlock(data, t)))

\* the result of tile t written into the output at the tile's offset
Stitch(g, t, res) ==
  [g EXCEPT !.cell =
     [p \in DOMAIN g.cell |->
        IF /\ p[1] \in t[1][1]..(t[1][2] - 1)
           /\ p[2] \in t[2][1]..(t[2][2] - 1)
        THEN res.cell[<<p[1] - t[1][1], p[2] - t[2][1]>>]
        ELSE g.cell[p]]]

\* --------------------------------------------------------------- dispatch
Kinds == {"numpy", "cupy", "dask_numpy", "dask_cupy", "other"}

\* isinstance(agg.data, da.Array)
IsDask(k) == k \in {"dask_numpy", "dask_cupy"}

\* is_cupy_backed(agg)
IsCupyBacked(k) == k = "dask_cupy"

\* the branch of aspect() taken for a storage kind and a value of has_cuda()
Branch(k, has_cuda) ==
  IF k = "numpy" THEN "_run_numpy"
  ELSE IF has_cuda /\ k = "cupy" THEN "_run_cupy"
  ELSE IF has_cuda /\ IsDask(k) /\ IsCupyBacked(k) THEN "_run_dask_cupy"
  ELSE IF IsDask(k) THEN "_run_dask_numpy"
  ELSE "TypeError"

\* ------------------------------------------------------------------ state
VARIABLES
  kind,     \* storage kind of agg.data
  cuda,     \* the value of has_cuda()
  data,     \* agg.data, the elevation grid
  pc,       \* "call", "device" (kernel launched), "tiles" (graph built), "done"
  called,   \* the evaluators aspect() has invoked, in order
  err,      \* the exception raised, or "none"
  out,      \* the grid returned (the stitched output while tiles run)
  padded,   \* _data of _run_cupy
  agg,      \* agg of _run_cupy, the output buffer of the kernel launch
  ran,      \* the threads of the launch that have finished
  wcount,   \* how many stores each cell of agg has received
  chunks,   \* the chunking of the dask array
  tdone,    \* the tiles already computed
  nb,       \* a 3x3 neighbourhood handed to the kernels
  keval,    \* the kernels applied to nb so far
  kcpu,     \* the value of the _cpu loop body on nb
  kgpu,     \* the value of _gpu on nb
  kprev,    \* the value of the _cpu loop body before nb was rotated
  krot      \* whether nb has been rotated

progvars ==
  <<kind, cuda, data, pc, called, err, out, padded, agg, ran, wcount, chunks, tdone>>

kvars == <<nb, keval, kcpu, kgpu, kprev, krot>>

vars == <<progvars, kvars>>

\* ----------------------------------------------------------------- inputs
\* the elevation of cell (y, x) of terrain t: a plane of slopes t.a (eastwards)
\* and t.b (southwards), one cell of it replaced by t.spike unless that is 0
SpikeAt == <<2, 1>>

Terrains ==
  [a : (-MaxSlope)..MaxSlope, b : (-MaxSlope)..MaxSlope, spike : {0, Steep, NaN}]

Elevation(t, y, x) ==
  IF <<y, x>> = SpikeAt /\ t.spike # 0 THEN t.spike ELSE t.a * x + t.b * y

Inputs ==
  {[rows |-> s[1], cols |-> s[2],
    cell |-> [p \in Cells(s[1], s[2]) |-> Elevation(t, p[1], p[2])]] :
     s \in (0..MaxRows) \X (0..MaxCols), t \in Terrains}

KElev == (0..MaxElev) \cup {Steep}

Windows == {w \in [Pos3 -> KElev] : w[<<1, 1>>] = 0}

ZeroWindow == [p \in Pos3 |-> 0]

NoChunks == [rcuts |-> {}, ccuts |-> {}]

HasNaN(g) == \E p \in DOMAIN g.cell : g.cell[p] = NaN

\* ------------------------------------------------------- aspect(): actions
ProgInit ==
  /\ kind \in Kinds
  /\ cuda \in BOOLEAN
  /\ data \in Inputs
  /\ pc = "call"
  /\ called = <<>>
  /\ err = "none"
  /\ out = NanGrid(0, 0)
  /\ padded = NanGrid(0, 0)
  /\ agg = NanGrid(0, 0)
  /\ ran = {}
  /\ wcount = [p \in {} |-> 0]
  /\ chunks = NoChunks
  /\ tdone = {}

KIdle ==
  /\ nb = ZeroWindow
  /\ keval = {}
  /\ kcpu = NaN
  /\ kgpu = NaN
  /\ kprev = NaN
  /\ krot = FALSE

Init == ProgInit /\ KIdle

\* numpy case: out = _run_numpy(agg.data)
AspectNumpy ==
  /\ pc = "call"
  /\ Branch(kind, cuda) = "_run_numpy"
  /\ called' = Append(called, "_run_numpy")
  /\ out' = Cpu(data)
  /\ pc' = "done"
  /\ UNCHANGED <<kind, cuda, data, err, padded, agg, ran, wcount, chunks, tdone>>
  /\ UNCHANGED kvars

\* cupy case, _run_cupy up to the kernel launch: pad, allocate and fill agg
AspectCupy ==
  /\ pc = "call"
  /\ Branch(kind, cuda) = "_run_cupy"
  /\ called' = Append(called, "_run_cupy")
  /\ IF data.rows = 0 \/ data.cols = 0
     THEN /\ err' = "ValueError"
          /\ pc' = "done"
          /\ UNCHANGED <<padded, agg, wcount>>
     ELSE /\ padded' = PadReflect(data)
          /\ agg' = NanGrid(data.rows + 2, data.cols + 2)
          /\ wcount' = [p \in Cells(data.rows + 2, data.cols + 2) |-> 0]
          /\ pc' = "device"
          /\ err' = err
  /\ ran' = {}
  /\ UNCHANGED <<kind, cuda, data, out, chunks, tdone>>
  /\ UNCHANGED kvars

\* _run_gpu in a thread whose bounds check passes: one store to agg
RunUnit ==
  /\ pc = "device"
  /\ \E u \in Threads(padded) \ ran :
       LET ws == UnitWrites(u[1], u[2], agg.rows, agg.cols)
       IN  /\ ws # {}
           /\ agg' = [agg EXCEPT !.cell =
                        [p \in DOMAIN agg.cell |->
                           IF p \in ws
                           THEN GpuCell(Window(padded, u[1], u[2]))
                           ELSE agg.cell[p]]]
           /\ wcount' = [p \in DOMAIN wcount |->
                           IF p \in ws THEN wcount[p] + 1 ELSE wcount[p]]
           /\ ran' = ran \cup {u}
  /\ UNCHANGED <<kind, cuda, data, pc, called, err, out, padded, chunks, tdone>>
  /\ UNCHANGED kvars

\* _run_gpu in the threads whose bounds check fails: they return at once and
\* touch no memory, so their order among the other threads is not observable
\* and they retire in one step
RetireIdle ==
  /\ pc = "device"
  /\ LET idle == {u \in Threads(padded) \ ran :
                    UnitWrites(u[1], u[2], agg.rows, agg.cols) = {}}
     IN  /\ idle # {}
         /\ ran' = ran \cup idle
  /\ UNCHANGED <<kind, cuda, data, pc, called, err, out, padded, agg, wcount,
                 chunks, tdone>>
  /\ UNCHANGED kvars

\* the launch has completed: out = agg[1:-1, 1:-1]
JoinCupy ==
  /\ pc = "device"
  /\ ran = Threads(padded)
  /\ out' = Trim(agg)
  /\ pc' = "done"
  /\ UNCHANGED <<kind, cuda, data, called, err, padded, agg, ran, wcount,
                 chunks, tdone>>
  /\ UNCHANGED kvars

\* dask + cupy case: _run_dask_cupy raises
AspectDaskCupy ==
  /\ pc = "call"
  /\ Branch(kind, cuda) = "_run_dask_cupy"
  /\ called' = Append(called, "_run_dask_cupy")
  /\ err' = "NotImplementedError"
  /\ pc' = "done"
  /\ UNCHANGED <<kind, cuda, data, out, padded, agg, ran, wcount, chunks, tdone>>
  /\ UNCHANGED kvars

\* dask + numpy case: _run_dask_numpy builds the map_overlap graph over the
\* chunks of the array
AspectDaskNumpy ==
  /\ pc = "call"
  /\ Branch(kind, cuda) = "_run_dask_numpy"
  /\ called' = Append(called, "_run_dask_numpy")
  /\ \E ch \in Chunkings(data.rows, data.cols) : chunks' = ch
  /\ out' = NanGrid(data.rows, data.cols)
  /\ tdone' = {}
  /\ pc' = "tiles"
  /\ UNCHANGED <<kind, cuda, data, err, padded, agg, ran, wcount>>
  /\ UNCHANGED kvars

\* one tile of the graph is computed, in any order
RunTile ==
  /\ pc = "tiles"
  /\ \E t \in Tiles(chunks, data.rows, data.cols) \ tdone :
       /\ out' = Stitch(out, t, TileResult(data, t))
       /\ tdone' = tdone \cup {t}
  /\ UNCHANGED <<kind, cuda, data, pc, called, err, padded, agg, ran, wcount, chunks>>
  /\ UNCHANGED kvars

\* every tile is computed: the stitched array is the result
FinishDask ==
  /\ pc = "tiles"
  /\ tdone = Tiles(chunks, data.rows, data.cols)
  /\ pc' = "done"
  /\ UNCHANGED <<kind, cuda, data, called, err, out, padded, agg, ran, wcount,
                 chunks, tdone>>
  /\ UNCHANGED kvars

\* else: raise TypeError
AspectUnsupported ==
  /\ pc = "call"
  /\ Branch(kind, cuda) = "TypeError"
  /\ err' = "TypeError"
  /\ pc' = "done"
  /\ UNCHANGED <<kind, cuda, data, called, out, padded, agg, ran, wcount, chunks, tdone>>
  /\ UNCHANGED kvars

Next ==
  \/ AspectNumpy
  \/ AspectCupy
  \/ RunUnit
  \/ RetireIdle
  \/ JoinCupy
  \/ AspectDaskCupy
  \/ AspectDaskNumpy
  \/ RunTile
  \/ FinishDask
  \/ AspectUnsupported

Spec == Init /\ [][Next]_vars

\* ------------------------------------------------- the kernels on their own
\* the neighbourhood turned a quarter turn clockwise: north goes to east
Rot90(w) == [p \in Pos3 |-> w[<<2 - p[2], p[1]>>]]

ProgIdle ==
  /\ kind = "numpy"
  /\ cuda = FALSE
  /\ data = NanGrid(0, 0)
  /\ pc = "kernel"
  /\ called = <<>>
  /\ err = "none"
  /\ out = NanGrid(0, 0)
  /\ padded = NanGrid(0, 0)
  /\ agg = NanGrid(0, 0)
  /\ ran = {}
  /\ wcount = [p \in {} |-> 0]
  /\ chunks = NoChunks
  /\ tdone = {}

KInit ==
  /\ ProgIdle
  /\ nb \in Windows
  /\ keval = {}
  /\ kcpu = NaN
  /\ kgpu = NaN
  /\ kprev = NaN
  /\ krot = FALSE

\* the loop body of _cpu applied to nb
KCpu ==
  /\ "cpu" \notin keval
  /\ kcpu' = CpuCell(nb)
  /\ keval' = keval \cup {"cpu"}
  /\ UNCHANGED <<nb, kgpu, kprev, krot>>
  /\ UNCHANGED progvars

\* _gpu applied to nb
KGpu ==
  /\ "gpu" \notin keval
  /\ kgpu' = GpuCell(nb)
  /\ keval' = keval \cup {"gpu"}
  /\ UNCHANGED <<nb, kcpu, kprev, krot>>
  /\ UNCHANGED progvars

\* the neighbourhood is rotated and handed to the kernels again
KRotate ==
  /\ keval = {"cpu", "gpu"}
  /\ ~krot
  /\ nb' = Rot90(nb)
  /\ kprev' = kcpu
  /\ krot' = TRUE
  /\ keval' = {}
  /\ kcpu' = NaN
  /\ kgpu' = NaN
  /\ UNCHANGED progvars

KNext == KCpu \/ KGpu \/ KRotate

KernelSpec == KInit /\ [][KNext]_vars

\* ================================================================= claims
\* the tolerance 1e-3 degree
Tol == Unit \div 1000

\* -1.0 or a bearing in [0, 360)
InRange(v) == v = Flat \/ (v # NaN /\ 0 <= v /\ v < 360 * Unit)

IsBorder(p, rows, cols) ==
  p[1] = 0 \/ p[1] = rows - 1 \/ p[2] = 0 \/ p[2] = cols - 1

\* strictly inside a rows x cols grid
StrictlyInside(p, rows, cols) ==
  p[1] >= 1 /\ p[1] <= rows - 2 /\ p[2] >= 1 /\ p[2] <= cols - 2

\* distance of two bearings on the circle
CircDist(u, v) ==
  LET d == Abs(u - v) % (360 * Unit)
  IN  IF d <= 180 * Unit THEN d ELSE 360 * Unit - d

ViaNumpy == called = <<"_run_numpy">>

ViaCupy == called = <<"_run_cupy">> /\ err = "none"

ViaDask == called = <<"_run_dask_numpy">>

\* C1: on a grid without NaN, every interior cell of the grid _cpu returns,
\* and every cell the device kernel has stored to, holds -1.0 or a value in
\* [0, 360): never the missing sentinel, never 360.
C1_InteriorInRange ==
  /\ (pc = "done" /\ ViaNumpy /\ ~HasNaN(data)) =>
       \A p \in DOMAIN out.cell :
         StrictlyInside(p, out.rows, out.cols) => InRange(out.cell[p])
  /\ (pc \in {"device", "done"} /\ ViaCupy /\ ~HasNaN(data)) =>
       \A p \in DOMAIN agg.cell : wcount[p] > 0 => InRange(agg.cell[p])

\* C2: every border cell of the grid _cpu returns is the missing sentinel, the
\* grid has the shape of the input, a grid with fewer than 3 rows or 3 columns
\* comes back all missing, and no error is raised.
C2_BorderMissing ==
  (pc = "done" /\ ViaNumpy) =>
    /\ err = "none"
    /\ out.rows = data.rows
    /\ out.cols = data.cols
    /\ DOMAIN out.cell = Cells(data.rows, data.cols)
    /\ \A p \in DOMAIN out.cell :
         IsBorder(p, out.rows, out.cols) => out.cell[p] = NaN
    /\ (data.rows < 3 \/ data.cols < 3) =>
         \A p \in DOMAIN out.cell : out.cell[p] = NaN

C2_Witness ==
  /\ pc = "done"
  /\ ViaNumpy
  /\ data.rows >= 3
  /\ data.cols >= 3
  /\ out.cell[<<0, 0>>] = NaN
  /\ out.cell[<<1, 1>>] # NaN

\* eight times dz_dx and dz_dy of a neighbourhood, written out
Gx8(w) ==
  (w[<<0, 2>>] + 2 * w[<<1, 2>>] + w[<<2, 2>>])
    - (w[<<0, 0>>] + 2 * w[<<1, 0>>] + w[<<2, 0>>])

Gy8(w) ==
  (w[<<2, 0>>] + 2 * w[<<2, 1>>] + w[<<2, 2>>])
    - (w[<<0, 0>>] + 2 * w[<<0, 1>>] + w[<<0, 2>>])

AllEqual(w) == \A p, q \in Pos3 \ {<<1, 1>>} : w[p] = w[q]

\* C3: each kernel returns -1.0 exactly when dz_dx and dz_dy are both zero; so
\* it returns -1.0 when all elevations of the neighbourhood are equal, and a
\* neighbourhood that is not flat never gives -1.0.
C3_FlatIffZeroGradient ==
  /\ "cpu" \in keval =>
       /\ kcpu = Flat <=> (Gx8(nb) = 0 /\ Gy8(nb) = 0)
       /\ AllEqual(nb) => kcpu = Flat
  /\ "gpu" \in keval =>
       /\ kgpu = Flat <=> (Gx8(nb) = 0 /\ Gy8(nb) = 0)
       /\ AllEqual(nb) => kgpu = Flat

C3_Witness ==
  /\ keval = {"cpu", "gpu"}
  /\ kcpu = Flat
  /\ kgpu = Flat
  /\ ~AllEqual(nb)

\* C4: when every tile has been computed, in whatever order, the stitched
\* grid equals _cpu on the whole grid in every cell off the outer border.
C4_TiledEqualsWhole ==
  (pc = "done" /\ ViaDask) =>
    /\ out.rows = data.rows
    /\ out.cols = data.cols
    /\ \A p \in DOMAIN out.cell :
         StrictlyInside(p, data.rows, data.cols) =>
           out.cell[p] = Cpu(data).cell[p]

C4_Witness ==
  /\ pc = "done"
  /\ ViaDask
  /\ Cardinality(tdone) >= 2
  /\ \E p \in DOMAIN out.cell :
       /\ StrictlyInside(p, data.rows, data.cols)
       /\ out.cell[p] # NaN
       /\ out.cell[p] # Flat

\* C5: on the same padded tile the sequential and the device evaluator agree
\* on every interior cell: both compute it or both leave it missing, the
\* values differ by at most the tolerance, and one is -1.0 exactly when the
\* other is.
C5_BackendsAgree ==
  (pc = "done" /\ ViaCupy) =>
    \A p \in DOMAIN agg.cell :
      StrictlyInside(p, agg.rows, agg.cols) =>
        LET c == Cpu(padded).cell[p]
            g == agg.cell[p]
        IN  /\ c = NaN <=> g = NaN
            /\ (c # NaN /\ g # NaN) => Abs(c - g) <= Tol
            /\ c = Flat <=> g = Flat

\* the uniform slope rising to the north: rows 30 / 20 / 10
NorthRising == [p \in Pos3 |-> 30 - 10 * p[1]]

Matching(k) ==
  CASE k = "numpy" -> "_run_numpy"
    [] k = "cupy" -> "_run_cupy"
    [] k = "dask_numpy" -> "_run_dask_numpy"
    [] OTHER -> "none"

\* C7: a call of aspect() invokes exactly the evaluator of the storage kind
\* or fails with an explicit error, TypeError for an unsupported kind and
\* NotImplementedError for dask over cupy; it never runs another backend.
C7_DispatchExplicit ==
  pc # "call" =>
    /\ \A n \in 1..Len(called) :
         called[n] \in {"_run_numpy", "_run_cupy", "_run_dask_numpy"} =>
           called = <<Matching(kind)>>
    /\ kind = "other" => (err = "TypeError" /\ called = <<>>)
    /\ kind = "dask_cupy" => err = "NotImplementedError"
    /\ Matching(kind) # "none" =>
         (called = <<Matching(kind)>> \/ err \in {"TypeError", "NotImplementedError"})

\* C8: every evaluator snaps a bearing above 359.999 to 0.0: neither kernel
\* gives a value in (359.999, 360].
C8_SnapEverywhere ==
  /\ "cpu" \in keval => ~(kcpu > NearFullCircle /\ kcpu <= 360 * Unit)
  /\ "gpu" \in keval => ~(kgpu > NearFullCircle /\ kgpu <= 360 * Unit)

\* C9: a device thread stores to its cell exactly when the cell is strictly
\* inside the padded tile; so the trimmed result has the shape of the tile and
\* every cell of it has been computed.
C9_ThreadWritesInside ==
  /\ (pc \in {"device", "done"} /\ ViaCupy) =>
       \A u \in ran :
         wcount[u] > 0 <=> StrictlyInside(u, agg.rows, agg.cols)
  /\ (pc = "done" /\ ViaCupy) =>
       /\ out.rows = data.rows
       /\ out.cols = data.cols
       /\ ~HasNaN(data) => \A p \in DOMAIN out.cell : out.cell[p] # NaN

\* what the launch leaves in agg, whatever the order of the threads
Launched(arr) ==
  [rows |-> arr.rows, cols |-> arr.cols,
   cell |-> [p \in Cells(arr.rows, arr.cols) |->
              IF GpuGuard(p[1], p[2], arr.rows, arr.cols)
              THEN GpuCell(Window(arr, p[1], p[2]))
              ELSE NaN]]

\* C10: agg is all missing before any thread runs; a thread reads the
\* unchanged input tile and stores to its own cell only, no cell is stored to
\* twice, and once all threads have finished agg is the same grid for every
\* interleaving.
C10_LaunchDeterministic ==
  (pc \in {"device", "done"} /\ ViaCupy) =>
    /\ padded = PadReflect(data)
    /\ ran = {} => agg = NanGrid(padded.rows, padded.cols)
    /\ \A p \in DOMAIN agg.cell :
         /\ wcount[p] <= 1
         /\ p \notin ran => (wcount[p] = 0 /\ agg.cell[p] = NaN)
    /\ ran = Threads(padded) => agg = Launched(padded)

C10_Witness ==
  /\ pc = "done"
  /\ ViaCupy
  /\ Cardinality({p \in DOMAIN wcount : wcount[p] = 1}) >= 2
  /\ \E p, q \in DOMAIN agg.cell :
       /\ wcount[p] = 1
       /\ wcount[q] = 1
       /\ agg.cell[p] # agg.cell[q]

====
